---- MODULE Spec2Model ----
(***************************************************************************)
(* A model of the tool-invocation dispatch layer of onit, src/type/tools.py *)
(* ToolRegistry: the name set, the per-name replica lists, and the          *)
(* insertion-ordered invoker dictionary keyed by f"{name}@{url}".           *)
(*                                                                         *)
(* Python strings are sequences of one-character strings, so that the      *)
(* f-string that builds the composite key is a real concatenation.         *)
(***************************************************************************)
EXTENDS Integers, Sequences, FiniteSets, TLC

\* --------------------------------------------------------------- bounds
\* The number of register calls of one run (the discovery phase is finite).
MaxRegs == 3

\* ------------------------------------------------------- Python values
\* Python's None where a string is expected (a tool name, a url). It is a
\* 1-tuple holding a word that is no character, so it differs from every
\* string, the four-character string "None" included.
None == <<"None">>

\* Python's None where a ToolHandler is expected (the absent invoker).
NoHandler == [obj |-> 0, url |-> None, tool_item |-> [obj |-> 0, name |-> None]]

\* str(v), as the f-string formats it: None formats as the text "None".
Str(v) == IF v = None THEN <<"N", "o", "n", "e">> ELSE v

\* The tool names and addresses discovery hands to register.
ToolNames == { <<"t">>, <<"t", "@", "u">>, <<"N", "o", "n", "e">> }
ToolUrls == { <<"v">>, <<"u", "@", "v">> }

\* The arguments callers pass to the lookups: every registered-able string,
\* a name and a url no backend advertises, and None.
LookupNames == ToolNames \cup { <<"x">>, None }
LookupUrls == ToolUrls \cup { <<"w">>, None }

\* ToolHandler(url=url, tool_item=item): obj is the object's identity (the
\* descriptor dict is built with its handler and shares the identity).
ToolHandler(obj, url, name) ==
    [obj |-> obj, url |-> url, tool_item |-> [obj |-> obj, name |-> name]]

\* RequestHandler.get_tool
get_tool(handler) == handler.tool_item

\* --------------------------------------------------------------- state
VARIABLES
    tools,       \* self.tools: set of tool names
    urls,        \* self.urls: dict, tool name -> list of urls
    handlers,    \* self.handlers: dict in insertion order, a sequence of
                 \* [key, value] entries with pairwise different keys
    registered,  \* the ToolHandler objects passed to register, in call order
    last,        \* the most recent call of the registry and its outcome
    readers,     \* the registry reads in progress, one per concurrent caller
    inv,         \* the invocations of ToolHandler.__call__, one per caller
    conns,       \* the connections (entered Client objects) that are open
    tmpfiles,    \* the files of tempfile.gettempdir()
    started      \* the number of invocations begun so far

vars == <<tools, urls, handlers, registered, last, readers,
          inv, conns, tmpfiles, started>>

\* The state of the registry and its callers, and that of the invocations.
registryVars == <<tools, urls, handlers, registered, last, readers>>

callVars == <<inv, conns, tmpfiles, started>>

\* ---------------------------------------------------- dict and list helpers
Range(s) == { s[i] : i \in DOMAIN s }

IsPrefix(s, t) == Len(s) <= Len(t) /\ SubSeq(t, 1, Len(s)) = s

\* The keys of an insertion-ordered dict.
Keys(d) == { d[i].key : i \in DOMAIN d }

\* A variant of the assignment that leaves the new key alone in the dict.
DictSetAlone(d, key, value) == << [key |-> key, value |-> value] >>

\* d[key] = value: a new key is appended, a present key keeps its position
\* and takes the new value.
DictSet(d, key, value) ==
    IF key \in Keys(d)
    THEN [i \in DOMAIN d |->
            IF d[i].key = key THEN [key |-> key, value |-> value] ELSE d[i]]
    ELSE Append(d, [key |-> key, value |-> value])

\* d[key] for a present key.
DictGet(d, key) == d[CHOOSE i \in DOMAIN d : d[i].key = key].value

\* The outcome of a call: a returned value or a raised exception (with
\* none the value of the return type that stands for "nothing returned").
Return(v) == [raised |-> "", ret |-> v]
Raise(e, none) == [raised |-> e, ret |-> none]

\* ------------------------------------------------------------- registry
\* key = f"{tool_name}@{tool_url}"
Key(tool_name, tool_url) == Str(tool_name) \o <<"@">> \o Str(tool_url)

\* Variants of randint with a wrong end: the upper end one too far, the
\* lower end one too far.
randintOffByOne(a, b) == a .. b + 1

randintSkipFirst(a, b) == a + 1 .. b

\* random.randint(a, b): the values a draw can produce, both ends included.
randint(a, b) == a .. b

\* Variants of lines 178-181 with a slip: the list replaced instead of
\* appended to, a known name's list left alone, an address kept once.
UrlsResetList(us, tool_name, tool_url) ==
    [n \in DOMAIN us \cup {tool_name} |->
        IF n = tool_name THEN <<tool_url>> ELSE us[n]]

UrlsSkipKnown(us, tool_name, tool_url) ==
    [n \in DOMAIN us \cup {tool_name} |->
        IF n \in DOMAIN us THEN us[n] ELSE <<tool_url>>]

UrlsDedup(us, tool_name, tool_url) ==
    [n \in DOMAIN us \cup {tool_name} |->
        IF n # tool_name THEN us[n]
        ELSE IF n \notin DOMAIN us THEN <<tool_url>>
        ELSE IF tool_url \in Range(us[n]) THEN us[n]
        ELSE Append(us[n], tool_url)]

\* register, lines 178-181: the replica lists after the call.
UrlsAfterRegister(us, tool_name, tool_url) ==
    [n \in DOMAIN us \cup {tool_name} |->
        IF n # tool_name THEN us[n]
        ELSE IF n \notin DOMAIN us THEN <<tool_url>>
        ELSE Append(us[n], tool_url)]

\* register, line 177: self.tools.add(tool_name)
ToolsAfterRegister(ts, tool_name) == ts \cup {tool_name}

\* The record of a call: the operation, its arguments, the exception it
\* raised ("" for none) and what it returned, one field per return type:
\* ret a url or None, handler a ToolHandler or None, items a list of
\* descriptors, names the names an iteration yielded, size an integer.
NoCall ==
    [op |-> "init", name |-> None, url |-> None, raised |-> "", ret |-> None,
     handler |-> NoHandler, items |-> << >>, names |-> << >>, size |-> 0]

\* The concurrent callers of the registry's read operations.
Readers == { "r1", "r2" }

\* A read in progress: the operation and its arguments, the statement it
\* is at (pc), its local variables (index, the url picked, the position of
\* the iteration over self.handlers and the items collected so far) and,
\* once done, the exception raised ("" for none) and the value returned.
IdleReader ==
    [pc |-> "idle", op |-> "none", name |-> None, url |-> None, index |-> 0,
     pos |-> 0, items |-> << >>, raised |-> "", ret |-> None,
     handler |-> NoHandler]

\* The concurrent callers of invokers.
Callers == { "c1", "c2" }

\* An invocation of ToolHandler.__call__: the statement it is at (pc: the
\* guard runs when it begins, then "connect", "call", "exit", "done"), its
\* number in the order of beginning (serial), self (handler), the kwargs it
\* was called with and the kwargs after the guard (sent), the Client it
\* entered, how often it tried to connect and called the remote tool, the
\* client it made the remote call on and whether that was open then, the
\* response or the exception of the remote call (error), and how it ended
\* (outcome: "str", "path" or "None" returned, "raised") with the str
\* returned (text), the path returned or the exception raised.
IdleCall ==
    [pc |-> "idle", serial |-> 0, handler |-> NoHandler,
     kwargs |-> [images |-> [type |-> "absent", str |-> << >>,
                             bytes |-> << >>, elems |-> << >>],
                 audios |-> [type |-> "absent", str |-> << >>,
                             bytes |-> << >>, elems |-> << >>]],
     sent |-> [images |-> [type |-> "absent", str |-> << >>,
                           bytes |-> << >>, elems |-> << >>],
               audios |-> [type |-> "absent", str |-> << >>,
                           bytes |-> << >>, elems |-> << >>]],
     client |-> [serial |-> 0, attempt |-> 0, url |-> None],
     connects |-> 0, calls |-> 0,
     called |-> [name |-> None,
                 kwargs |-> [images |-> [type |-> "absent", str |-> << >>,
                                         bytes |-> << >>, elems |-> << >>],
                             audios |-> [type |-> "absent", str |-> << >>,
                                         bytes |-> << >>, elems |-> << >>]]],
     usedClient |-> [serial |-> 0, attempt |-> 0, url |-> None],
     usedOpen |-> FALSE,
     response |-> [kind |-> "none", text |-> "", wrapped |-> FALSE,
                   content |-> << >>],
     error |-> "", outcome |-> "none", text |-> [msg |-> "", arg |-> << >>],
     path |-> [name |-> 0, ext |-> ""], raised |-> ""]

Init ==
    /\ readers = [r \in Readers |-> IdleReader]
    /\ inv = [c \in Callers |-> IdleCall]
    /\ conns = {}
    /\ tmpfiles = {}
    /\ started = 0
    /\ tools = {}
    /\ urls = << >>
    /\ handlers = << >>
    /\ registered = << >>
    /\ last = NoCall

\* ToolRegistry.register(tool)
register(tool) ==
    LET tool_name == tool.tool_item.name
        tool_url == tool.url
    IN  /\ Len(registered) < MaxRegs
        /\ tools' = ToolsAfterRegister(tools, tool_name)
        /\ urls' = UrlsAfterRegister(urls, tool_name, tool_url)
        /\ handlers' = DictSet(handlers, Key(tool_name, tool_url), tool)
        /\ registered' = Append(registered, tool)
        /\ last' = [NoCall EXCEPT !.op = "register", !.name = tool_name,
                                   !.url = tool_url]
        /\ UNCHANGED <<readers, callVars>>

\* The discovery collaborator builds a fresh ToolHandler per (descriptor,
\* address) pair and registers it.
Discover ==
    \E name \in ToolNames, url \in ToolUrls :
        register(ToolHandler(Len(registered) + 1, url, name))

\* ToolRegistry.get_url(tool_name), with index the value random.randint drew.
get_url(tool_name, index) ==
    IF tool_name \notin DOMAIN urls THEN Return(None)
    ELSE LET us == urls[tool_name]
         IN  IF randint(0, Len(us) - 1) = {} THEN Raise("ValueError", None)
             ELSE IF index + 1 \in DOMAIN us THEN Return(us[index + 1])
             ELSE Raise("IndexError", None)

\* The values random.randint(0, len(urls) - 1) can draw in get_url and in
\* __getitem__; a call that draws nothing (an unknown name, an empty range)
\* has the one outcome get_url(tool_name, 0) / getitem(tool_name, 0).
Draws(tool_name) ==
    IF tool_name \in DOMAIN urls /\ randint(0, Len(urls[tool_name]) - 1) # {}
    THEN randint(0, Len(urls[tool_name]) - 1)
    ELSE {0}

\* ToolRegistry.get_tool_items()
get_tool_items == [i \in DOMAIN handlers |-> get_tool(handlers[i].value)]

\* ToolRegistry.get_handler_by(tool_name, url): line 204 is the expression
\* statement None, which returns nothing, so the key is built for None too.
get_handler_by(tool_name, url) ==
    LET key == Key(tool_name, url)
    IN  IF key \in Keys(handlers) THEN Return(DictGet(handlers, key))
        ELSE Return(NoHandler)

\* ToolRegistry.__getitem__(tool_name), with index the value randint drew.
getitem(tool_name, index) ==
    IF tool_name \notin tools THEN Return(NoHandler)
    ELSE IF tool_name \notin DOMAIN urls
    THEN Raise("KeyError", NoHandler)
    ELSE LET us == urls[tool_name]
         IN  IF randint(0, Len(us) - 1) = {}
             THEN Raise("ValueError", NoHandler)
             ELSE IF index + 1 \notin DOMAIN us
             THEN Raise("IndexError", NoHandler)
             ELSE LET key == Key(tool_name, us[index + 1])
                  IN  IF key \in Keys(handlers)
                      THEN Return(DictGet(handlers, key))
                      ELSE Raise("KeyError", NoHandler)

\* get_tools(tool_registry) from the k-th key of tool_registry.handlers on,
\* with items the descriptors appended so far: the outcomes the draws of
\* tool_registry[key] allow. tool_registry[key] is None for a key that is
\* not a tool name, and None.get_tool() raises AttributeError.
RECURSIVE GetToolsFrom(_, _)
GetToolsFrom(k, items) ==
    IF k > Len(handlers) THEN { [raised |-> "", items |-> items] }
    ELSE UNION { LET found == getitem(handlers[k].key, draw)
                 IN  IF found.raised # ""
                     THEN { [raised |-> found.raised, items |-> << >>] }
                     ELSE IF found.ret = NoHandler
                     THEN { [raised |-> "AttributeError", items |-> << >>] }
                     ELSE GetToolsFrom(k + 1, Append(items, get_tool(found.ret))) :
                 draw \in Draws(handlers[k].key) }

\* get_tools(tool_registry)
get_tools == GetToolsFrom(1, << >>)

\* A variant of __len__ that counts the invoker entries, replicas included.
lenCountsHandlers == Len(handlers)

\* ToolRegistry.__len__
len == Cardinality(tools)

\* ToolRegistry.__iter__: iter(self.tools) yields every element of the set
\* once, in an order the set's hashing decides.
iter == { s \in [1 .. Cardinality(tools) -> tools] :
            \A i, j \in DOMAIN s : i # j => s[i] # s[j] }

\* A variant of a read that drops the name it looked up from self.tools.
ReadEvicts(call) ==
    /\ last' = call
    /\ tools' = tools \ {call.name}
    /\ UNCHANGED <<urls, handlers, registered, readers, callVars>>

\* A read leaves the registry as it is and records its call.
Read(call) ==
    /\ last' = call
    /\ UNCHANGED <<tools, urls, handlers, registered, readers, callVars>>

\* One call of get_url whose draw (if any) is index.
CallGetUrlDraw(tool_name, index) ==
    /\ index \in Draws(tool_name)
    /\ Read([NoCall EXCEPT !.op = "get_url", !.name = tool_name,
                           !.raised = get_url(tool_name, index).raised,
                           !.ret = get_url(tool_name, index).ret])

CallGetUrl ==
    \E tool_name \in LookupNames, index \in 0 .. MaxRegs :
        CallGetUrlDraw(tool_name, index)

CallGetToolItems ==
    Read([NoCall EXCEPT !.op = "get_tool_items", !.items = get_tool_items])

\* One call of get_handler_by.
CallGetHandlerByOf(tool_name, url) ==
    Read([NoCall EXCEPT !.op = "get_handler_by", !.name = tool_name,
                        !.url = url,
                        !.raised = get_handler_by(tool_name, url).raised,
                        !.handler = get_handler_by(tool_name, url).ret])

CallGetHandlerBy ==
    \E tool_name \in LookupNames, url \in LookupUrls :
        CallGetHandlerByOf(tool_name, url)

\* One call of registry[tool_name] whose draw (if any) is index.
CallGetItemDraw(tool_name, index) ==
    /\ index \in Draws(tool_name)
    /\ Read([NoCall EXCEPT !.op = "getitem", !.name = tool_name,
                           !.raised = getitem(tool_name, index).raised,
                           !.handler = getitem(tool_name, index).ret])

CallGetItem ==
    \E tool_name \in LookupNames, index \in 0 .. MaxRegs :
        CallGetItemDraw(tool_name, index)

CallLen == Read([NoCall EXCEPT !.op = "len", !.size = len])

CallGetTools ==
    \E outcome \in get_tools :
        Read([NoCall EXCEPT !.op = "get_tools", !.raised = outcome.raised,
                            !.items = outcome.items])

CallIter ==
    \E order \in iter : Read([NoCall EXCEPT !.op = "iter", !.names = order])

Next ==
    \/ Discover
    \/ CallGetUrl
    \/ CallGetToolItems
    \/ CallGetHandlerBy
    \/ CallGetItem
    \/ CallLen
    \/ CallIter
    \/ CallGetTools

Spec == Init /\ [][Next]_vars

\* Discovery followed by repeated get_url calls, with a fair random choice:
\* a draw that stays possible is eventually made.
FairNext ==
    \/ Discover
    \/ CallGetUrl

FairSpec ==
    /\ Init
    /\ [][FairNext]_vars
    /\ \A tool_name \in ToolNames, index \in 0 .. MaxRegs :
          WF_vars(CallGetUrlDraw(tool_name, index))

\* ------------------------------------------------ the registration history
NameOf(handler) == handler.tool_item.name

PairOf(handler) == <<NameOf(handler), handler.url>>

RegisteredNames == { NameOf(registered[i]) : i \in DOMAIN registered }

RegisteredPairs == { PairOf(registered[i]) : i \in DOMAIN registered }

\* The urls tool_name was registered with.
RegisteredUrls(tool_name) ==
    { registered[i].url :
        i \in { j \in DOMAIN registered : NameOf(registered[j]) = tool_name } }

\* The handler most recently registered at the pair.
LastRegisteredAt(pair) ==
    registered[CHOOSE i \in DOMAIN registered :
        /\ PairOf(registered[i]) = pair
        /\ \A j \in DOMAIN registered :
              PairOf(registered[j]) = pair => j <= i]

\* How often x occurs in the list s.
Count(s, x) == Cardinality({ i \in DOMAIN s : s[i] = x })

\* The replica list of a name, empty for a name the map does not hold.
ReplicaList(tool_name) ==
    IF tool_name \in DOMAIN urls THEN urls[tool_name] ELSE << >>

\* A step of register, and the handler it registered.
RegisterStep == registered' # registered

NewTool == registered'[Len(registered')]

\* ------------------------------------------------------------------- C1
\* C1: in every reachable registry state every name of the replica-address
\* map has at least one address, and every key of the invoker map is the
\* composite key of a name of the replica-address map and an address of
\* that name's replica list (as is the pair of the invoker stored under it).
C1_MapsConsistent ==
    /\ \A n \in DOMAIN urls : Len(urls[n]) >= 1
    /\ \A i \in DOMAIN handlers :
          /\ \E n \in DOMAIN urls : \E a \in Range(urls[n]) :
                handlers[i].key = Key(n, a)
          /\ NameOf(handlers[i].value) \in DOMAIN urls
          /\ handlers[i].value.url \in Range(urls[NameOf(handlers[i].value)])

\* A name registered three times, twice at one address, beside its keys.
C1_Witness ==
    \E n \in DOMAIN urls :
        /\ Len(urls[n]) = 3
        /\ Cardinality(Range(urls[n])) = 2
        /\ Len(handlers) = 2

\* ------------------------------------------------------------------- C2
\* C2: for every registered (name, address) pair, get_handler_by(name,
\* address) returns exactly the invoker most recently registered at that
\* pair, whatever other pairs were registered.
C2_HandlerByReturnsRegistered ==
    (last.op = "get_handler_by" /\ <<last.name, last.url>> \in RegisteredPairs)
        => /\ last.raised = ""
           /\ last.handler = LastRegisteredAt(<<last.name, last.url>>)

\* ------------------------------------------------------------------- C3
\* C3: for every (name, address) that was never passed to register as that
\* exact pair, None arguments included, get_handler_by returns the absent
\* sentinel and does not raise.
C3_HandlerByMissIsAbsent ==
    (last.op = "get_handler_by" /\ <<last.name, last.url>> \notin RegisteredPairs)
        => /\ last.raised = ""
           /\ last.handler = NoHandler

\* ------------------------------------------------------------------- C4
\* C4: get_url(name) never raises; for a registered name it returns an
\* address of that name's replica list (an address the name was registered
\* with), for a name never registered it returns None.
C4_GetUrlInReplicaList ==
    last.op = "get_url" =>
        /\ last.raised = ""
        /\ IF last.name \in RegisteredNames
           THEN /\ last.name \in DOMAIN urls
                /\ last.ret \in Range(urls[last.name])
                /\ last.ret \in RegisteredUrls(last.name)
           ELSE last.ret = None

\* get_url returned the second of two different replicas of a name.
C4_Witness ==
    /\ last.op = "get_url"
    /\ last.name \in DOMAIN urls
    /\ Len(urls[last.name]) = 2
    /\ last.ret = urls[last.name][2]
    /\ last.ret # urls[last.name][1]

\* ------------------------------------------------------------------- C5
\* C5: with a fair random choice, every member of a name's replica list is
\* eventually returned by get_url(name), and get_url(name) never returns
\* anything outside the list.
C5_NoReplicaStarved ==
    /\ [](last.op = "get_url" /\ last.name \in DOMAIN urls
            => last.raised = "" /\ last.ret \in Range(urls[last.name]))
    /\ \A n \in ToolNames, u \in ToolUrls :
          (n \in DOMAIN urls /\ u \in Range(urls[n]))
              ~> (/\ last.op = "get_url"
                  /\ last.name = n
                  /\ last.raised = ""
                  /\ last.ret = u)

\* get_url returned the last of three replicas of a name.
C5_Witness ==
    /\ last.op = "get_url"
    /\ last.name \in DOMAIN urls
    /\ Len(urls[last.name]) = 3
    /\ urls[last.name][3] \notin { urls[last.name][1], urls[last.name][2] }
    /\ last.ret = urls[last.name][3]

\* ------------------------------------------------------------------- C6
\* C6: registry[name] never raises; for a registered name it returns an
\* invoker that was registered under that name, at an address of the name's
\* replica list, and with one registered replica exactly that invoker; for
\* a name never registered it returns the absent sentinel.
C6_GetItemReturnsOwnInvoker ==
    last.op = "getitem" =>
        /\ last.raised = ""
        /\ IF last.name \in RegisteredNames
           THEN /\ last.handler \in Range(registered)
                /\ NameOf(last.handler) = last.name
                /\ last.handler.url \in Range(ReplicaList(last.name))
                /\ Len(ReplicaList(last.name)) = 1
                      => last.handler = LastRegisteredAt(
                            <<last.name, ReplicaList(last.name)[1]>>)
           ELSE last.handler = NoHandler

\* ------------------------------------------------------------------- C7
\* C7: len(registry) is the number of distinct registered names and an
\* iteration yields exactly those names, each once; a register call for a
\* known name with an address the name does not have yet leaves the size
\* unchanged and makes the name's replica list one longer.
C7_SizeCountsNames ==
    /\ [](/\ len = Cardinality(RegisteredNames)
          /\ last.op = "len" => last.size = Cardinality(RegisteredNames)
          /\ \A order \in iter :
                /\ Range(order) = RegisteredNames
                /\ Len(order) = Cardinality(RegisteredNames)
          /\ last.op = "iter" =>
                /\ Range(last.names) = RegisteredNames
                /\ \A n \in RegisteredNames : Count(last.names, n) = 1)
    /\ [][(/\ RegisterStep
           /\ NameOf(NewTool) \in RegisteredNames
           /\ NewTool.url \notin RegisteredUrls(NameOf(NewTool)))
            => /\ len' = len
               /\ Len(urls'[NameOf(NewTool)]) = Len(urls[NameOf(NewTool)]) + 1
               /\ Len(registered) = 1 => Len(urls'[NameOf(NewTool)]) = 2]_vars

\* One name registered at its two addresses and a second name: the size
\* read afterwards is 2.
C7_Witness ==
    /\ last.op = "len"
    /\ last.size = 2
    /\ Len(registered) = 3
    /\ \E n \in DOMAIN urls : Cardinality(Range(urls[n])) = 2

\* ------------------------------------------------------------------- C8
\* The register calls that were the first for their (name, address) pair.
FirstRegistrations ==
    { i \in DOMAIN registered :
        \A j \in 1 .. i - 1 : PairOf(registered[j]) # PairOf(registered[i]) }

\* The k-th of them in registration order.
KthFirstRegistration(k) ==
    CHOOSE i \in FirstRegistrations :
        Cardinality({ j \in FirstRegistrations : j <= i }) = k

\* C8: get_tool_items() returns one descriptor per registered (name,
\* address) pair, in the order the pairs were first registered, so a tool
\* registered at R addresses appears R times; when no name has two
\* addresses the number of distinct names in the result is the size.
C8_OneItemPerPair ==
    last.op = "get_tool_items" =>
        /\ Len(last.items) = Cardinality(RegisteredPairs)
        /\ \A k \in DOMAIN last.items :
              k <= Cardinality(FirstRegistrations) =>
                  last.items[k].name = NameOf(registered[KthFirstRegistration(k)])
        /\ \A n \in RegisteredNames :
              Cardinality({ k \in DOMAIN last.items : last.items[k].name = n })
                  = Cardinality(RegisteredUrls(n))
        /\ (\A n \in RegisteredNames : Cardinality(RegisteredUrls(n)) = 1)
              => Cardinality({ last.items[k].name : k \in DOMAIN last.items })
                    = len

\* ------------------------------------------------------------------- C9
\* C9: register does not deduplicate addresses: an address occurs in a
\* name's replica list as often as the pair was registered (twice after
\* two registrations); and right after register(tool) the invoker map holds
\* exactly one entry under the pair's key, bound to tool, the map growing
\* by no entry when the pair had been registered before.
C9_NoDedupSingleInvoker ==
    /\ [](\A n \in ToolNames, a \in ToolUrls :
            Count(ReplicaList(n), a)
                = Cardinality({ i \in DOMAIN registered :
                                  PairOf(registered[i]) = <<n, a>> }))
    /\ [][RegisterStep =>
            LET key == Key(NameOf(NewTool), NewTool.url)
            IN  /\ Cardinality({ i \in DOMAIN handlers' :
                                   handlers'[i].key = key }) = 1
                /\ DictGet(handlers', key) = NewTool
                /\ PairOf(NewTool) \in RegisteredPairs
                      => Len(handlers') = Len(handlers)]_vars

\* The same pair was just registered a second time.
C9_Witness ==
    /\ last.op = "register"
    /\ Len(registered) = 2
    /\ PairOf(registered[1]) = PairOf(registered[2])
    /\ Count(urls[last.name], last.url) = 2
    /\ Len(handlers) = 1
    /\ handlers[1].value = registered[2]

\* ------------------------------------------------------------------ C10
\* C10: the registry is append-only: over every step the name set only
\* grows, every replica list is a prefix of its later self, and every key
\* of the invoker map stays in it.
C10_AppendOnly ==
    [][/\ tools \subseteq tools'
       /\ \A n \in DOMAIN urls :
             /\ n \in DOMAIN urls'
             /\ IsPrefix(urls[n], urls'[n])
       /\ Keys(handlers) \subseteq Keys(handlers')]_vars

\* A register call has just extended a replica list that held an address.
C10_Witness ==
    /\ last.op = "register"
    /\ Len(urls[last.name]) >= 2
    /\ Len(handlers) >= 2

\* ------------------------------------------- concurrent registry reads
\* A reader finishes: it returns v in the field of v's type, or raises e.
ReaderReturnsUrl(rd, v) == [rd EXCEPT !.pc = "done", !.ret = v]

ReaderReturnsHandler(rd, v) == [rd EXCEPT !.pc = "done", !.handler = v]

ReaderRaises(rd, e) == [rd EXCEPT !.pc = "done", !.raised = e]

\* One statement of get_url run by a reader, with draw the value randint
\* draws at line 191. urls = self.urls[tool_name] binds the list object
\* itself, so the later statements read the list as it is then.
GetUrlStatement(rd, draw) ==
    CASE rd.pc = "gu_check" ->
            IF rd.name \notin DOMAIN urls THEN ReaderReturnsUrl(rd, None)
            ELSE [rd EXCEPT !.pc = "gu_draw"]
      [] rd.pc = "gu_draw" ->
            IF rd.name \notin DOMAIN urls THEN ReaderRaises(rd, "KeyError")
            ELSE IF randint(0, Len(urls[rd.name]) - 1) = {}
            THEN ReaderRaises(rd, "ValueError")
            ELSE [rd EXCEPT !.pc = "gu_index", !.index = draw]
      [] rd.pc = "gu_index" ->
            IF rd.index + 1 \in DOMAIN urls[rd.name]
            THEN ReaderReturnsUrl(rd, urls[rd.name][rd.index + 1])
            ELSE ReaderRaises(rd, "IndexError")

\* One statement of __getitem__ run by a reader.
GetItemStatement(rd, draw) ==
    CASE rd.pc = "gi_check" ->
            IF rd.name \notin tools THEN ReaderReturnsHandler(rd, NoHandler)
            ELSE [rd EXCEPT !.pc = "gi_draw"]
      [] rd.pc = "gi_draw" ->
            IF rd.name \notin DOMAIN urls THEN ReaderRaises(rd, "KeyError")
            ELSE IF randint(0, Len(urls[rd.name]) - 1) = {}
            THEN ReaderRaises(rd, "ValueError")
            ELSE [rd EXCEPT !.pc = "gi_index", !.index = draw]
      [] rd.pc = "gi_index" ->
            IF rd.index + 1 \in DOMAIN urls[rd.name]
            THEN [rd EXCEPT !.pc = "gi_lookup",
                            !.url = urls[rd.name][rd.index + 1]]
            ELSE ReaderRaises(rd, "IndexError")
      [] rd.pc = "gi_lookup" ->
            IF Key(rd.name, rd.url) \in Keys(handlers)
            THEN ReaderReturnsHandler(
                    [rd EXCEPT !.url = None],
                    DictGet(handlers, Key(rd.name, rd.url)))
            ELSE ReaderRaises(rd, "KeyError")

\* One statement of get_handler_by run by a reader.
GetHandlerByStatement(rd) ==
    CASE rd.pc = "gh_check" ->
            IF Key(rd.name, rd.url) \in Keys(handlers)
            THEN [rd EXCEPT !.pc = "gh_lookup"]
            ELSE ReaderReturnsHandler(rd, NoHandler)
      [] rd.pc = "gh_lookup" ->
            IF Key(rd.name, rd.url) \in Keys(handlers)
            THEN ReaderReturnsHandler(
                    rd, DictGet(handlers, Key(rd.name, rd.url)))
            ELSE ReaderRaises(rd, "KeyError")

\* One turn of the loop of get_tool_items run by a reader: the next key of
\* self.handlers and the descriptor of its handler, or the end of the loop.
GetToolItemsStatement(rd) ==
    IF rd.pos < Len(handlers)
    THEN [rd EXCEPT !.pos = rd.pos + 1,
                    !.items = Append(rd.items,
                                     get_tool(handlers[rd.pos + 1].value))]
    ELSE [rd EXCEPT !.pc = "done"]

\* The values randint can draw for the reader at its draw statement.
ReaderDraws(rd) ==
    IF rd.pc \in {"gu_draw", "gi_draw"} THEN Draws(rd.name) ELSE {0}

\* The names and urls the concurrent callers ask for: a name discovery may
\* register and one it never does, a url of that name and a foreign one.
ReaderNames == { <<"t">>, <<"x">> }
ReaderUrls == { <<"u", "@", "v">>, <<"w">> }

\* The tools the discovery phase that precedes the concurrent reads finds.
ServedNames == { <<"t">>, <<"t", "@", "u">> }

\* A caller starts a read; the discovery phase is over from then on.
StartRead(r) ==
    /\ readers[r].pc \in {"idle", "done"}
    /\ \E op \in {"get_url", "getitem", "get_handler_by", "get_tool_items"},
          tool_name \in ReaderNames \cup {None},
          url \in ReaderUrls \cup {None} :
          /\ op \in {"get_url", "getitem"} => tool_name # None /\ url = None
          /\ op = "get_handler_by" => tool_name # None /\ url # None
          /\ op = "get_tool_items" => tool_name = None /\ url = None
          /\ readers' = [readers EXCEPT ![r] =
                [IdleReader EXCEPT
                    !.op = op, !.name = tool_name, !.url = url,
                    !.pc = CASE op = "get_url" -> "gu_check"
                             [] op = "getitem" -> "gi_check"
                             [] op = "get_handler_by" -> "gh_check"
                             [] op = "get_tool_items" -> "ti_loop"]]
    /\ UNCHANGED <<tools, urls, handlers, registered, last, callVars>>

ReaderGetUrl(r) ==
    /\ readers[r].pc \in {"gu_check", "gu_draw", "gu_index"}
    /\ \E draw \in ReaderDraws(readers[r]) :
          readers' = [readers EXCEPT ![r] = GetUrlStatement(readers[r], draw)]
    /\ UNCHANGED <<tools, urls, handlers, registered, last, callVars>>

ReaderGetItem(r) ==
    /\ readers[r].pc \in {"gi_check", "gi_draw", "gi_index", "gi_lookup"}
    /\ \E draw \in ReaderDraws(readers[r]) :
          readers' = [readers EXCEPT ![r] = GetItemStatement(readers[r], draw)]
    /\ UNCHANGED <<tools, urls, handlers, registered, last, callVars>>

ReaderGetHandlerBy(r) ==
    /\ readers[r].pc \in {"gh_check", "gh_lookup"}
    /\ readers' = [readers EXCEPT ![r] = GetHandlerByStatement(readers[r])]
    /\ UNCHANGED <<tools, urls, handlers, registered, last, callVars>>

ReaderGetToolItems(r) ==
    /\ readers[r].pc = "ti_loop"
    /\ readers' = [readers EXCEPT ![r] = GetToolItemsStatement(readers[r])]
    /\ UNCHANGED <<tools, urls, handlers, registered, last, callVars>>

\* Discovery happens once, before any read begins.
DiscoveryPhase ==
    /\ \A r \in Readers : readers[r] = IdleReader
    /\ \E name \in ServedNames, url \in ToolUrls :
          register(ToolHandler(Len(registered) + 1, url, name))

ReadersNext ==
    \/ DiscoveryPhase
    \/ \E r \in Readers : StartRead(r)
    \/ \E r \in Readers : ReaderGetUrl(r)
    \/ \E r \in Readers : ReaderGetItem(r)
    \/ \E r \in Readers : ReaderGetHandlerBy(r)
    \/ \E r \in Readers : ReaderGetToolItems(r)

ReadersSpec == Init /\ [][ReadersNext]_vars

\* ------------------------------------------------------------------ C11
\* C11: after discovery, however the statements of concurrent get_url,
\* registry[name], get_handler_by and get_tool_items calls interleave, no
\* call raises and every finished call returned a result the operation run
\* alone on the registry can return.
C11_ConcurrentReadsAsAlone ==
    \A r \in Readers :
        LET rd == readers[r]
        IN  /\ rd.raised = ""
            /\ rd.pc = "done" =>
                CASE rd.op = "get_url" ->
                        \E draw \in Draws(rd.name) :
                            get_url(rd.name, draw) = Return(rd.ret)
                  [] rd.op = "getitem" ->
                        \E draw \in Draws(rd.name) :
                            getitem(rd.name, draw) = Return(rd.handler)
                  [] rd.op = "get_handler_by" ->
                        get_handler_by(rd.name, rd.url) = Return(rd.handler)
                  [] rd.op = "get_tool_items" ->
                        rd.items = get_tool_items

\* One caller has got the second replica's invoker from registry[name]
\* while the other is in the middle of get_tool_items.
C11_Witness ==
    /\ readers["r1"].pc = "done"
    /\ readers["r1"].op = "getitem"
    /\ readers["r1"].name \in DOMAIN urls
    /\ Len(urls[readers["r1"].name]) >= 2
    /\ readers["r1"].handler.url = urls[readers["r1"].name][2]
    /\ readers["r1"].handler.url # urls[readers["r1"].name][1]
    /\ readers["r2"].pc = "ti_loop"
    /\ readers["r2"].pos = 1
    /\ Len(handlers) >= 2

\* ------------------------------------------------------------ base64
\* The base64 alphabet, in the order of the 6-bit values 0 .. 63.
B64Chars ==
    << "A", "B", "C", "D", "E", "F", "G", "H", "I", "J", "K", "L", "M",
       "N", "O", "P", "Q", "R", "S", "T", "U", "V", "W", "X", "Y", "Z",
       "a", "b", "c", "d", "e", "f", "g", "h", "i", "j", "k", "l", "m",
       "n", "o", "p", "q", "r", "s", "t", "u", "v", "w", "x", "y", "z",
       "0", "1", "2", "3", "4", "5", "6", "7", "8", "9", "+", "/" >>

B64Char(v) == B64Chars[v + 1]

B64Value(c) == (CHOOSE k \in DOMAIN B64Chars : B64Chars[k] = c) - 1

\* base64.b64encode(data).decode('utf-8'): bytes (integers 0 .. 255) to
\* text, three bytes to four characters, the last group padded with "=".
RECURSIVE b64encode(_)
b64encode(data) ==
    IF Len(data) = 0 THEN << >>
    ELSE IF Len(data) = 1
    THEN << B64Char(data[1] \div 4), B64Char((data[1] % 4) * 16), "=", "=" >>
    ELSE IF Len(data) = 2
    THEN << B64Char(data[1] \div 4),
            B64Char((data[1] % 4) * 16 + data[2] \div 16),
            B64Char((data[2] % 16) * 4), "=" >>
    ELSE << B64Char(data[1] \div 4),
            B64Char((data[1] % 4) * 16 + data[2] \div 16),
            B64Char((data[2] % 16) * 4 + data[3] \div 64),
            B64Char(data[3] % 64) >>
         \o b64encode(SubSeq(data, 4, Len(data)))

\* binascii.a2b_base64 in its default (non-strict) mode, from character i
\* of text on: quad is the position in the group of four, pads the padding
\* seen, left the bits not yet written. Characters outside the alphabet
\* are skipped, padding that completes a group ends the input, and data
\* that stops inside a group is the error "Incorrect padding".
RECURSIVE a2b_base64(_, _, _, _, _, _)
a2b_base64(text, i, quad, pads, left, out) ==
    IF i > Len(text)
    THEN IF quad = 0 THEN [raised |-> "", data |-> out]
         ELSE [raised |-> "binascii.Error", data |-> << >>]
    ELSE IF text[i] = "="
    THEN IF quad >= 2 /\ quad + pads + 1 >= 4
         THEN [raised |-> "", data |-> out]
         ELSE a2b_base64(text, i + 1, quad,
                         IF quad >= 2 THEN pads + 1 ELSE pads, left, out)
    ELSE IF text[i] \notin Range(B64Chars)
    THEN a2b_base64(text, i + 1, quad, pads, left, out)
    ELSE LET v == B64Value(text[i])
         IN  CASE quad = 0 -> a2b_base64(text, i + 1, 1, 0, v, out)
               [] quad = 1 ->
                    a2b_base64(text, i + 1, 2, 0, v % 16,
                               Append(out, left * 4 + v \div 16))
               [] quad = 2 ->
                    a2b_base64(text, i + 1, 3, 0, v % 4,
                               Append(out, left * 16 + v \div 4))
               [] quad = 3 ->
                    a2b_base64(text, i + 1, 0, 0, 0,
                               Append(out, left * 64 + v))

\* base64.b64decode(text): the bytes, or the exception raised.
b64decode(text) == a2b_base64(text, 1, 0, 0, 0, << >>)

\* -------------------------------------------------- call arguments
\* A Python value passed as a media argument: type is its Python type
\* ("absent" for an argument not passed), str the text of a str, bytes the
\* content of a bytes, elems the entries of a list or the values of a dict
\* in insertion order; an entry is a value without entries of its own.
Entry(type, str, bytes) == [type |-> type, str |-> str, bytes |-> bytes]

StrEntry(str) == Entry("str", str, << >>)

BytesEntry(bytes) == Entry("bytes", << >>, bytes)

\* An entry that is neither str nor bytes: an int, a list inside a list.
IntEntry == Entry("int", << >>, << >>)

ListEntry == Entry("list", << >>, << >>)

Value(type, str, bytes, elems) ==
    [type |-> type, str |-> str, bytes |-> bytes, elems |-> elems]

\* kwargs[media_type][0]: an entry as a value of its own.
AsValue(entry) == Value(entry.type, entry.str, entry.bytes, << >>)

Absent == Value("absent", << >>, << >>, << >>)

PyList(elems) == Value("list", << >>, << >>, elems)

PyDict(elems) == Value("dict", << >>, << >>, elems)

\* [text]: the list of one str that normalization leaves in kwargs.
ListOfOneStr(text) == PyList(<< StrEntry(text) >>)

\* A str the invocation returns: fixed text msg followed by formatted arg.
Text(msg, arg) == [msg |-> msg, arg |-> arg]

NoText == Text("", << >>)

\* ------------------------------------------------------ filesystem
\* The files that exist when the invocations run, with their contents.
FileSystem ==
    [path \in { <<"/", "a">>, <<"/", "b">> } |->
        IF path = <<"/", "a">> THEN <<104, 105>> ELSE <<65>>]

\* os.path.exists(path)
exists(path) == path \in DOMAIN FileSystem

\* text.lstrip(char): text without all its leading occurrences of char.
RECURSIVE lstrip(_, _)
lstrip(text, char) ==
    IF Len(text) > 0 /\ text[1] = char THEN lstrip(Tail(text), char)
    ELSE text

\* ------------------------------------------- ToolHandler.__call__, guard
\* What the code of one media argument does: it goes on with kwargs[m]
\* set to value, or returns text, or raises.
GuardSets(value) ==
    [outcome |-> "continue", value |-> value, text |-> NoText, raised |-> ""]

GuardReturns(text) ==
    [outcome |-> "returned", value |-> Absent, text |-> text, raised |-> ""]

GuardRaises(e) ==
    [outcome |-> "raised", value |-> Absent, text |-> NoText, raised |-> e]

\* Lines 74-77
NoMediaText(media_type) ==
    IF media_type = "images"
    THEN Text("No images provided. For images, use the camera tool to capture an image first.", << >>)
    ELSE Text("No audios provided. For audios, use the microphone tool to record an audio first.", << >>)

\* Line 105: the f-string formats the list media_types, not media_type.
UnsupportedTypeText(media_type) ==
    IF media_type = "images"
    THEN Text("Unsupported images type provided. Please provide a list of base64-encoded ['images', 'audios'] or file paths.", << >>)
    ELSE Text("Unsupported audios type provided. Please provide a list of base64-encoded ['images', 'audios'] or file paths.", << >>)

\* Lines 87-88: open(path, 'rb') and the encoding of what is read; open
\* raises for a path that does not exist.
EncodeFile(path) ==
    IF exists(path) THEN GuardSets(ListOfOneStr(b64encode(FileSystem[path])))
    ELSE GuardRaises("FileNotFoundError")

\* Lines 94-102: the loop over the values of the dict, from the k-th on,
\* with current the value kwargs[media_type] has by then. The loop runs
\* over the dict it started with, whatever kwargs[media_type] becomes.
RECURSIVE DictLoop(_, _, _)
DictLoop(elems, k, current) ==
    IF k > Len(elems) THEN GuardSets(current)
    ELSE IF elems[k].type = "str"
    THEN IF EncodeFile(elems[k].str).outcome = "continue"
         THEN DictLoop(elems, k + 1, EncodeFile(elems[k].str).value)
         ELSE EncodeFile(elems[k].str)
    ELSE IF elems[k].type = "bytes"
    THEN DictLoop(elems, k + 1, ListOfOneStr(b64encode(elems[k].bytes)))
    ELSE GuardReturns(Text("Unsupported image type provided.", << >>))

\* A variant that keeps the last entry of the list.
ListLast(value) == AsValue(value.elems[Len(value.elems)])

\* Line 78: kwargs[media_type][0] of a list.
ListFirst(value) == AsValue(value.elems[1])

\* Lines 73-105 for one media argument that is present.
NormalizeMedia(media_type, value) ==
    IF value.type = "list" /\ Len(value.elems) = 0
    THEN GuardReturns(NoMediaText(media_type))
    ELSE LET first == IF value.type = "list" THEN ListFirst(value)
                      ELSE value
         IN  CASE first.type = "str" ->
                    LET path == IF exists(first.str) THEN first.str
                                ELSE lstrip(first.str, ".")
                    IN  IF exists(path) THEN EncodeFile(path)
                        ELSE GuardReturns(Text("File not found: ", path))
               [] first.type = "bytes" ->
                    GuardSets(ListOfOneStr(b64encode(first.bytes)))
               [] first.type = "dict" -> DictLoop(first.elems, 1, first)
               [] OTHER -> GuardReturns(UnsupportedTypeText(media_type))

\* Lines 70-105: the loop over media_types = ['images', 'audios']. It goes
\* on to the connection with the normalized kwargs, or ends the call.
Guard(kwargs) ==
    LET images == IF kwargs.images.type = "absent" THEN GuardSets(Absent)
                  ELSE NormalizeMedia("images", kwargs.images)
        audios == IF kwargs.audios.type = "absent" THEN GuardSets(Absent)
                  ELSE NormalizeMedia("audios", kwargs.audios)
    IN  IF images.outcome # "continue"
        THEN [outcome |-> images.outcome, text |-> images.text,
              raised |-> images.raised, kwargs |-> kwargs]
        ELSE IF audios.outcome # "continue"
        THEN [outcome |-> audios.outcome, text |-> audios.text,
              raised |-> audios.raised,
              kwargs |-> [kwargs EXCEPT !.images = images.value]]
        ELSE [outcome |-> "continue", text |-> NoText, raised |-> "",
              kwargs |-> [images |-> images.value, audios |-> audios.value]]

\* ------------------------------------------------------ tool responses
\* A content item of a response: its class (type), the text of a
\* TextContent, the base64 data of an ImageContent or AudioContent, and
\* whether the item has an attribute named format, with its value.
Item(type, text, data, has_format, format) ==
    [type |-> type, text |-> text, data |-> data,
     has_format |-> has_format, format |-> format]

TextContent(text) == Item("text", text, << >>, FALSE, "")

ImageContent(data) == Item("image", "", data, FALSE, "")

AudioContent(data) == Item("audio", "", data, FALSE, "")

AudioContentWithFormat(data, format) == Item("audio", "", data, TRUE, format)

\* An item of another class (an embedded resource, a resource link).
OtherContent == Item("resource", "", << >>, FALSE, "")

\* What client.call_tool returns: a bare str, or a result whose content is
\* a list of items (wrapped) or one item that is not in a list.
BareString(text) ==
    [kind |-> "str", text |-> text, wrapped |-> FALSE, content |-> << >>]

ToolResult(content) ==
    [kind |-> "result", text |-> "", wrapped |-> TRUE, content |-> content]

UnwrappedResult(item) ==
    [kind |-> "result", text |-> "", wrapped |-> FALSE, content |-> <<item>>]

NoPath == [name |-> 0, ext |-> ""]

\* The names of the files of the scratch directory.
FileNames(files) == { f.name : f \in files }

\* A variant of the name generation that always gives the same name.
uuid4Fixed(files) == 1

\* uuid.uuid4(): a value it has not given before, so one that names no
\* file the invocations wrote.
uuid4(files) ==
    CHOOSE n \in 1 .. Cardinality(files) + 1 :
        /\ n \notin FileNames(files)
        /\ \A m \in 1 .. n - 1 : m \in FileNames(files)

\* A variant of the write that leaves no file behind.
WriteFileDropped(files, file) == files

\* open(path, "wb") and the write: the file at the path is created, or
\* replaced when there is one.
WriteFile(files, file) ==
    { f \in files : f.name # file.name \/ f.ext # file.ext } \cup {file}

\* ------------------------------------- ToolHandler.__call__, decoding
\* How the decoding ends: the outcome, the str or path returned or the
\* exception raised, and the files of the scratch directory afterwards.
DecodeReturnsText(text, files) ==
    [outcome |-> "str", text |-> text, path |-> NoPath, raised |-> "",
     files |-> files]

DecodeReturnsNone(files) ==
    [outcome |-> "None", text |-> NoText, path |-> NoPath, raised |-> "",
     files |-> files]

DecodeRaises(e, files) ==
    [outcome |-> "raised", text |-> NoText, path |-> NoPath, raised |-> e,
     files |-> files]

\* Lines 124-131 and 150-160: the file named by a new uuid is written and
\* its path returned. container is "raw" for the bytes written as they
\* are, "wav" for the frames written by wave (mono, 16 bit, 16 kHz).
DecodeWritesFile(ext, container, data, files) ==
    LET file == [name |-> uuid4(files), ext |-> ext,
                 container |-> container, data |-> data]
    IN  [outcome |-> "path", text |-> NoText,
         path |-> [name |-> file.name, ext |-> ext], raised |-> "",
         files |-> WriteFile(files, file)]

\* A variant that decodes the last item of the content.
LastItem(response) == response.content[Len(response.content)]

\* Line 117: content[0] of a list, the content itself otherwise.
FirstItem(response) == response.content[1]

\* Lines 113-162
Decode(response, files) ==
    IF response.kind = "str"
    THEN DecodeReturnsText(Text(response.text, << >>), files)
    ELSE IF Len(response.content) = 0
    THEN DecodeRaises("IndexError", files)
    ELSE LET content == FirstItem(response)
         IN  CASE content.type = "image" ->
                    IF b64decode(content.data).raised # ""
                    THEN DecodeRaises(b64decode(content.data).raised, files)
                    ELSE DecodeWritesFile("png", "raw",
                                          b64decode(content.data).data, files)
               [] content.type = "text" ->
                    DecodeReturnsText(Text(content.text, << >>), files)
               [] content.type = "audio" ->
                    IF Len(content.data) = 0 THEN DecodeReturnsNone(files)
                    ELSE IF b64decode(content.data).raised # ""
                    THEN DecodeRaises(b64decode(content.data).raised, files)
                    ELSE DecodeWritesFile(
                            IF content.has_format THEN content.format
                            ELSE "wav",
                            "wav", b64decode(content.data).data, files)
               [] OTHER ->
                    DecodeReturnsText(
                        Text("Undefined content type returned from the tool.",
                             << >>), files)

\* -------------------------------------- ToolHandler.__call__, the call
\* A variant in which the invocation goes on to the connection whatever
\* its guard found.
AfterGuardConnects(c, guard) ==
    [c EXCEPT !.pc = "connect", !.sent = guard.kwargs]

\* The invocation after its guard (lines 70-105).
AfterGuard(c, guard) ==
    CASE guard.outcome = "continue" ->
            [c EXCEPT !.pc = "connect", !.sent = guard.kwargs]
      [] guard.outcome = "returned" ->
            [c EXCEPT !.pc = "done", !.outcome = "str", !.text = guard.text]
      [] guard.outcome = "raised" ->
            [c EXCEPT !.pc = "done", !.outcome = "raised",
                      !.raised = guard.raised]

\* A variant of the client that shares one connection per url.
ClientPooled(c) == [serial |-> 1, attempt |-> 1, url |-> c.handler.url]

\* Client(self.url), line 108: a new client object per invocation.
NewClient(c) ==
    [serial |-> c.serial, attempt |-> c.connects + 1, url |-> c.handler.url]

\* A variant that tries the connection once more after a failure.
ConnectFailureRetries(c) ==
    IF c.connects = 0 THEN [c EXCEPT !.connects = 1]
    ELSE [c EXCEPT !.pc = "done", !.connects = c.connects + 1,
                   !.outcome = "raised", !.raised = "ConnectError"]

\* Line 108 when entering the client raises: the exception leaves the call.
AfterConnectFailure(c) ==
    [c EXCEPT !.pc = "done", !.connects = c.connects + 1,
              !.outcome = "raised", !.raised = "ConnectError"]

\* The end of the async with block: the client is closed, on the normal
\* path and when the block is left by an exception.
Released(open, c) == open \ {c.client}

\* The invocation begins: the guard runs at once (it awaits nothing).
Begin(i, handler, kwargs) ==
    /\ inv[i].pc \in {"idle", "done"}
    /\ started' = started + 1
    /\ inv' = [inv EXCEPT ![i] =
                 AfterGuard([IdleCall EXCEPT !.serial = started + 1,
                                             !.handler = handler,
                                             !.kwargs = kwargs],
                            Guard(kwargs))]
    /\ UNCHANGED <<conns, tmpfiles, registryVars>>

\* async with Client(self.url) as client: the client connects.
Connect(i) ==
    /\ inv[i].pc = "connect"
    /\ inv' = [inv EXCEPT ![i] =
                 [@ EXCEPT !.pc = "call", !.connects = @ + 1,
                           !.client = NewClient(inv[i])]]
    /\ conns' = conns \cup {NewClient(inv[i])}
    /\ UNCHANGED <<tmpfiles, started, registryVars>>

\* ... or fails to.
ConnectFails(i) ==
    /\ inv[i].pc = "connect"
    /\ inv' = [inv EXCEPT ![i] = AfterConnectFailure(inv[i])]
    /\ UNCHANGED <<conns, tmpfiles, started, registryVars>>

\* A variant that sends the arguments as the caller gave them.
CallArgumentsAsGiven(c) == [name |-> c.handler.tool_item.name, kwargs |-> c.kwargs]

\* Line 111: the name and the arguments client.call_tool is given, the
\* name of the descriptor and kwargs as the guard left it.
CallArguments(c) == [name |-> c.handler.tool_item.name, kwargs |-> c.sent]

\* await client.call_tool(name, kwargs) returns response.
CallTool(i, response) ==
    /\ inv[i].pc = "call"
    /\ inv' = [inv EXCEPT ![i] =
                 [@ EXCEPT !.pc = "exit", !.calls = @ + 1,
                           !.called = CallArguments(inv[i]),
                           !.usedClient = inv[i].client,
                           !.usedOpen = inv[i].client \in conns,
                           !.response = response]]
    /\ UNCHANGED <<conns, tmpfiles, started, registryVars>>

\* ... or raises.
CallToolFails(i) ==
    /\ inv[i].pc = "call"
    /\ inv' = [inv EXCEPT ![i] =
                 [@ EXCEPT !.pc = "exit", !.calls = @ + 1,
                           !.called = CallArguments(inv[i]),
                           !.usedClient = inv[i].client,
                           !.usedOpen = inv[i].client \in conns,
                           !.error = "ToolError"]]
    /\ UNCHANGED <<conns, tmpfiles, started, registryVars>>

\* The async with block is left: the client is closed; then the exception
\* of the remote call leaves the invocation, or the response is decoded
\* (lines 113-162, which await nothing) and the invocation returns.
Exit(i) ==
    /\ inv[i].pc = "exit"
    /\ conns' = Released(conns, inv[i])
    /\ LET decoded == IF inv[i].error # ""
                      THEN DecodeRaises(inv[i].error, tmpfiles)
                      ELSE Decode(inv[i].response, tmpfiles)
       IN  /\ inv' = [inv EXCEPT ![i] =
                        [@ EXCEPT !.pc = "done",
                                  !.outcome = decoded.outcome,
                                  !.text = decoded.text,
                                  !.path = decoded.path,
                                  !.raised = decoded.raised]]
           /\ tmpfiles' = decoded.files
    /\ UNCHANGED <<started, registryVars>>

\* --------------------------------------------------- one invocation
MaxCalls == 2

\* The invokers that are called: two tools of the same name at two
\* addresses.
InvokeHandlers ==
    { ToolHandler(1, <<"v">>, <<"t">>), ToolHandler(2, <<"u", "@", "v">>, <<"t">>) }

Existing == <<"/", "a">>

Missing == <<"/", "m">>

SomeBytes == <<65>>

\* The shapes of a media argument: the ones the guard accepts and the ones
\* it refuses.
MediaValues ==
    { PyList(<< >>),
      AsValue(StrEntry(Existing)), AsValue(StrEntry(Missing)),
      AsValue(StrEntry(<<".", ".", "/", "b">>)),
      AsValue(StrEntry(<<".", "/", "m">>)),
      AsValue(StrEntry(<<".", "/", "a">>)),
      AsValue(BytesEntry(SomeBytes)), AsValue(IntEntry),
      PyList(<< StrEntry(Existing), StrEntry(Missing) >>),
      PyList(<< StrEntry(Missing) >>),
      PyList(<< BytesEntry(SomeBytes) >>),
      PyList(<< IntEntry >>), PyList(<< ListEntry >>),
      PyDict(<< >>),
      PyDict(<< StrEntry(Existing) >>), PyDict(<< StrEntry(Missing) >>),
      PyDict(<< BytesEntry(SomeBytes) >>), PyDict(<< IntEntry >>),
      PyDict(<< StrEntry(Existing), BytesEntry(SomeBytes) >>),
      PyDict(<< BytesEntry(SomeBytes), IntEntry >>),
      PyDict(<< BytesEntry(SomeBytes), StrEntry(Missing) >>) }

\* The keyword arguments of one invocation: no media argument, one of
\* them, or both.
InvokeKwargs ==
    { [images |-> Absent, audios |-> Absent] }
    \cup { [images |-> v, audios |-> Absent] : v \in MediaValues }
    \cup { [images |-> Absent, audios |-> v] : v \in MediaValues }
    \cup { [images |-> AsValue(StrEntry(Existing)), audios |-> v] :
              v \in { PyList(<< >>), AsValue(BytesEntry(SomeBytes)),
                      AsValue(StrEntry(Missing)), PyDict(<< >>) } }

Hi == <<"a", "G", "k", "=">>

\* What the remote tool answers.
InvokeResponses ==
    { BareString("ok"),
      ToolResult(<< TextContent("hello") >>),
      ToolResult(<< TextContent("hello"), OtherContent >>),
      ToolResult(<< OtherContent >>),
      ToolResult(<< OtherContent, TextContent("hello") >>),
      UnwrappedResult(TextContent("hello")),
      ToolResult(<< >>),
      ToolResult(<< ImageContent(Hi) >>),
      ToolResult(<< ImageContent(<<"Q", "Q", "=", "=">>), TextContent("hello") >>),
      ToolResult(<< ImageContent(<< >>) >>),
      ToolResult(<< ImageContent(<<"a", "G", "k">>) >>),
      ToolResult(<< AudioContent(Hi) >>),
      ToolResult(<< AudioContentWithFormat(Hi, "mp3") >>),
      ToolResult(<< AudioContent(<< >>) >>),
      ToolResult(<< AudioContent(<<"=">>) >>),
      ToolResult(<< AudioContent(<<"Q">>) >>) }

InvokeNext ==
    \/ \E handler \in InvokeHandlers, kwargs \in InvokeKwargs :
          started < MaxCalls /\ Begin("c1", handler, kwargs)
    \/ Connect("c1")
    \/ ConnectFails("c1")
    \/ \E response \in InvokeResponses : CallTool("c1", response)
    \/ CallToolFails("c1")
    \/ Exit("c1")

InvokeSpec == Init /\ [][InvokeNext]_vars

\* ------------------------------------------------------------------ C12
\* The invocations that have begun.
Begun == { c \in Callers : inv[c].serial > 0 }

IsEmptyList(value) == value.type = "list" /\ Len(value.elems) = 0

\* The argument is a str, or a list whose first entry is a str.
IsPath(value) ==
    \/ value.type = "str"
    \/ value.type = "list" /\ Len(value.elems) > 0 /\ value.elems[1].type = "str"

PathOf(value) == IF value.type = "str" THEN value.str ELSE value.elems[1].str

\* The path names no file, with or without its leading dots.
IsMissingPath(value) ==
    /\ IsPath(value)
    /\ \A k \in 0 .. Len(PathOf(value)) :
          (\A j \in 1 .. k : PathOf(value)[j] = ".")
              => ~exists(SubSeq(PathOf(value), k + 1, Len(PathOf(value))))

\* The guard of 'images' lets the invocation go on to 'audios'.
ImagesPass(kwargs) ==
    \/ kwargs.images.type = "absent"
    \/ NormalizeMedia("images", kwargs.images).outcome = "continue"

\* The invocation ended in its guard by returning a str: it raised
\* nothing, opened no connection and made no remote call.
EndedInGuardWithStr(c) ==
    /\ c.pc = "done"
    /\ c.outcome = "str"
    /\ c.raised = ""
    /\ c.connects = 0
    /\ c.calls = 0

FirstOf(value) ==
    IF value.type = "list" /\ Len(value.elems) > 0 THEN AsValue(value.elems[1])
    ELSE value

\* A value of the mapping is a path that names no file.
HasMissingValue(value) ==
    /\ FirstOf(value).type = "dict"
    /\ \E k \in DOMAIN FirstOf(value).elems :
          IsMissingPath(AsValue(FirstOf(value).elems[k]))

\* The argument, or a value of the mapping, is of a type the guard does
\* not take.
HasUnsupportedType(value) ==
    \/ FirstOf(value).type \notin {"str", "bytes", "dict"}
    \/ /\ FirstOf(value).type = "dict"
       /\ \E k \in DOMAIN FirstOf(value).elems :
             FirstOf(value).elems[k].type \notin {"str", "bytes"}

\* The local validation of the media argument fails.
FailsValidation(value) ==
    /\ value.type # "absent"
    /\ \/ IsEmptyList(value)
       \/ IsMissingPath(value)
       \/ HasMissingValue(value)
       \/ HasUnsupportedType(value)

\* C13: every invocation whose 'images' argument (or, 'images' having
\* passed, whose 'audios' argument) fails local validation -- an empty
\* list, a path that names no file given directly, as first list element or
\* as a value of a mapping, an argument or mapping value of an unsupported
\* type -- ends by returning a str, raises nothing, opens no connection and
\* makes no remote call.
C13_ValidationFailureReturnsStr ==
    \A i \in Begun :
        LET c == inv[i]
        IN  \/ FailsValidation(c.kwargs.images)
            \/ ImagesPass(c.kwargs) /\ FailsValidation(c.kwargs.audios)
            => EndedInGuardWithStr(c)

\* ------------------------------------------------------------------ C14
\* text is the base64 encoding of some bytes.
IsBase64(text) ==
    /\ b64decode(text).raised = ""
    /\ b64encode(b64decode(text).data) = text

\* A list of exactly one entry, a base64 str.
IsOneBase64(value) ==
    /\ value.type = "list"
    /\ Len(value.elems) = 1
    /\ value.elems[1].type = "str"
    /\ IsBase64(value.elems[1].str)

\* C14: when an invocation has made its remote call, the value it sent for
\* each media argument ('images', 'audios') present in its arguments is a
\* list of exactly one base64 str, whatever shape the guard accepted (path,
\* bytes, list of those, mapping of those, the empty mapping included).
C14_SentOneBase64 ==
    \A i \in Begun :
        inv[i].calls > 0 =>
            /\ inv[i].kwargs.images.type # "absent" =>
                  IsOneBase64(inv[i].sent.images)
            /\ inv[i].kwargs.audios.type # "absent" =>
                  IsOneBase64(inv[i].sent.audios)

\* ----------------------------------------------- concurrent invocations
\* The arguments and the answers of the invocations that run concurrently.
ConcurrentKwargs ==
    { [images |-> Absent, audios |-> Absent],
      [images |-> AsValue(StrEntry(Existing)), audios |-> Absent],
      [images |-> PyList(<< >>), audios |-> Absent] }

ConcurrentResponses ==
    { ToolResult(<< TextContent("hello") >>),
      ToolResult(<< ImageContent(Hi) >>),
      ToolResult(<< ImageContent(<<"Q", "Q", "=", "=">>) >>),
      ToolResult(<< AudioContentWithFormat(Hi, "png") >>) }

\* Two callers invoke the invokers; their invocations interleave at the
\* awaits (entering the client, the remote call, leaving the client).
ConcurrentNext ==
    \E i \in Callers :
        \/ \E handler \in InvokeHandlers, kwargs \in ConcurrentKwargs :
              started < MaxCalls /\ Begin(i, handler, kwargs)
        \/ Connect(i)
        \/ ConnectFails(i)
        \/ \E response \in ConcurrentResponses : CallTool(i, response)
        \/ CallToolFails(i)
        \/ Exit(i)

ConcurrentSpec == Init /\ [][ConcurrentNext]_vars

\* ------------------------------------------------------------------ C15
\* The invocation is inside its async with block.
Connected(c) == c.pc \in {"call", "exit"}

\* C15: an invocation that passed its guard makes one connection, to the
\* url of its own invoker; the connection is open while the invocation is
\* inside the block and the remote call goes over it; when the invocation
\* has returned or raised (normal return, connect failure, remote failure)
\* its connection is closed; no two invocations share a connection and no
\* connection is open that belongs to no running invocation.
C15_OwnConnectionScopedToCall ==
    /\ \A i \in Begun :
          LET c == inv[i]
          IN  /\ Connected(c) =>
                    /\ c.connects = 1
                    /\ c.client \in conns
                    /\ c.client.url = c.handler.url
              /\ c.calls > 0 => c.usedClient = c.client /\ c.usedOpen
              /\ c.pc = "done" =>
                    /\ c.connects = (IF Guard(c.kwargs).outcome = "continue"
                                     THEN 1 ELSE 0)
                    /\ c.client \notin conns
    /\ \A i, j \in Begun :
          i # j /\ Connected(inv[i]) /\ Connected(inv[j])
              => inv[i].client # inv[j].client
    /\ \A client \in conns :
          \E i \in Begun : Connected(inv[i]) /\ inv[i].client = client

\* Two invocations of the same invoker are inside their blocks at once,
\* each on its own open connection to that invoker's url; the remote call
\* of one has failed and it is about to leave its block.
C15_Witness ==
    /\ Connected(inv["c1"])
    /\ Connected(inv["c2"])
    /\ inv["c1"].handler = inv["c2"].handler
    /\ inv["c1"].client # inv["c2"].client
    /\ {inv["c1"].client, inv["c2"].client} = conns
    /\ inv["c1"].pc = "exit" /\ inv["c1"].error = "ToolError"

\* ------------------------------------------------------------------ C16
\* The invocation passed its guard and ended without a remote call: its
\* connection failed.
ConnectFailed(c) ==
    c.pc = "done" /\ Guard(c.kwargs).outcome = "continue" /\ c.calls = 0

\* The invocation ended after its remote call raised.
RemoteFailed(c) == c.pc = "done" /\ c.error # ""

\* The invocation raised e and returned no value.
EndedRaising(c, e) ==
    /\ c.outcome = "raised"
    /\ c.raised = e
    /\ c.text = NoText
    /\ c.path = NoPath

\* C16: an invocation whose connection or remote call fails ends by raising
\* that failure and returns no value, and no invocation makes more than one
\* connection attempt or more than one remote call.
C16_FailuresRaiseNoRetry ==
    \A i \in Begun :
        LET c == inv[i]
        IN  /\ c.connects <= 1
            /\ c.calls <= 1
            /\ ConnectFailed(c) => EndedRaising(c, "ConnectError")
            /\ RemoteFailed(c) => EndedRaising(c, "ToolError")

\* The second invocation ended raising the failure of its remote call,
\* after one connection and one call.
C16_Witness ==
    /\ started = 2
    /\ RemoteFailed(inv["c1"])
    /\ inv["c1"].outcome = "raised"
    /\ inv["c1"].connects = 1
    /\ inv["c1"].calls = 1
    /\ conns = {}

\* ------------------------------------------------------------------ C17
\* The invocation has returned or raised after a remote call that answered.
Answered(c) == c.pc = "done" /\ c.calls = 1 /\ c.error = ""

\* The response has a first content item, of one of the given classes.
FirstIs(response, types) ==
    /\ response.kind = "result"
    /\ Len(response.content) > 0
    /\ response.content[1].type \in types

\* The invocation returned the str text and raised nothing.
ReturnedStr(c, text) ==
    c.outcome = "str" /\ c.raised = "" /\ c.text = Text(text, << >>)

\* C17: a bare str response is returned as it is; a response whose first
\* content item is a text item returns that item's text; a response whose
\* first content item is not a text, image or audio item returns the fixed
\* 'Undefined content type' str and raises nothing.
C17_DecodeStrTextOther ==
    \A i \in Begun :
        LET c == inv[i]
        IN  Answered(c) =>
            /\ c.response.kind = "str" => ReturnedStr(c, c.response.text)
            /\ FirstIs(c.response, {"text"}) =>
                  ReturnedStr(c, c.response.content[1].text)
            /\ /\ c.response.kind = "result"
               /\ Len(c.response.content) > 0
               /\ ~FirstIs(c.response, {"text", "image", "audio"})
               => ReturnedStr(c, "Undefined content type returned from the tool.")

\* The response [text 'hello', other item] was decoded to 'hello'.
C17_Witness ==
    /\ Answered(inv["c1"])
    /\ Len(inv["c1"].response.content) = 2
    /\ FirstIs(inv["c1"].response, {"text"})
    /\ inv["c1"].response.content[2].type = "resource"
    /\ inv["c1"].text = Text("hello", << >>)

\* ------------------------------------------------------------------ C18
\* The paths of the files of the scratch directory.
Paths(files) == { [name |-> f.name, ext |-> f.ext] : f \in files }

\* This step is the one in which invocation i decodes its response.
Decodes(i) ==
    inv[i].pc = "exit" /\ inv[i].error = "" /\ inv'[i].pc = "done"

\* After the step the file at the path holds data, written as container.
Holds(path, container, data) ==
    [name |-> path.name, ext |-> path.ext, container |-> container,
     data |-> data] \in tmpfiles'

FormatTag(item) == IF item.has_format THEN item.format ELSE "wav"

\* C19: decoding a response whose first content item is an audio item: when
\* the decoded payload is empty the invocation returns None, raises nothing
\* and writes no file; otherwise it writes the decoded payload to a file
\* that was not there, whose extension is the item's format tag ('wav'
\* without one), and returns its path.
C19_AudioNoneOrFile ==
    [][\A i \in Callers :
          /\ Decodes(i)
          /\ FirstIs(inv[i].response, {"audio"})
          /\ b64decode(inv[i].response.content[1].data).raised = ""
          => LET item == inv[i].response.content[1]
                 payload == b64decode(item.data).data
             IN  IF Len(payload) = 0
                 THEN /\ inv'[i].outcome = "None"
                      /\ inv'[i].raised = ""
                      /\ tmpfiles' = tmpfiles
                 ELSE /\ inv'[i].outcome = "path"
                      /\ inv'[i].path.ext = FormatTag(item)
                      /\ inv'[i].path \notin Paths(tmpfiles)
                      /\ Holds(inv'[i].path, "wav", payload)]_vars

\* ------------------------------------------------------------------ C20
\* C20: every image or audio decode, in invocations that follow each other
\* or that run concurrently, writes to a path no earlier decode wrote to,
\* the paths two invocations returned differ, and every file written stays
\* as it was written: the set of files only grows.
C20_ArtifactsDistinctAndKept ==
    [][/\ tmpfiles \subseteq tmpfiles'
       /\ \A i \in Callers :
             Decodes(i) /\ inv'[i].outcome = "path" =>
                /\ inv'[i].path \notin Paths(tmpfiles)
                /\ inv'[i].path \in Paths(tmpfiles')
                /\ Cardinality(tmpfiles') = Cardinality(tmpfiles) + 1
       /\ \A i, j \in Callers :
             i # j /\ inv'[i].outcome = "path" /\ inv'[j].outcome = "path"
                => inv'[i].path # inv'[j].path]_vars

\* Two concurrent invocations decoded an image and an audio item tagged
\* 'png' into two files with the same extension and different names.
C20_Witness ==
    /\ inv["c1"].outcome = "path"
    /\ inv["c2"].outcome = "path"
    /\ inv["c1"].serial < inv["c2"].serial
    /\ FirstIs(inv["c1"].response, {"image"})
    /\ FirstIs(inv["c2"].response, {"audio"})
    /\ inv["c1"].path.ext = inv["c2"].path.ext
    /\ inv["c1"].path.name # inv["c2"].path.name
    /\ Cardinality(tmpfiles) = 2

\* ------------------------------------------------------------------ C21
\* The invocation returned a value its decoding produced.
ReturnedDecoded(c) ==
    /\ c.pc = "done"
    /\ Guard(c.kwargs).outcome = "continue"
    /\ c.outcome \in {"str", "path", "None"}

\* C21: in every invocation the guard has run over 'images' and 'audios'
\* and accepted both before a connection is opened; the connection is open
\* before the remote call; the remote call is given the name of the
\* invoker's descriptor and the arguments as the guard normalized them;
\* a decoded value is returned only after the remote call answered; and an
\* invocation whose guard refuses an argument ends with no connection
\* opened, also when 'images' had been normalized before 'audios' was
\* refused.
C21_StepsInOrder ==
    \A i \in Begun :
        LET c == inv[i]
        IN  /\ c.pc = "connect" =>
                  c.connects = 0 /\ c.sent = Guard(c.kwargs).kwargs
            /\ c.connects > 0 => Guard(c.kwargs).outcome = "continue"
            /\ c.calls > 0 =>
                  /\ c.connects = 1
                  /\ c.usedOpen
                  /\ c.called.name = c.handler.tool_item.name
                  /\ c.called.kwargs = Guard(c.kwargs).kwargs
            /\ ReturnedDecoded(c) =>
                  c.calls = 1 /\ c.response.kind # "none" /\ c.error = ""
            /\ Guard(c.kwargs).outcome # "continue" =>
                  c.pc = "done" /\ c.connects = 0 /\ c.calls = 0

\* An invocation with images = '/a' and audios = b'A' has returned a
\* decoded value after its remote call was given the two encoded lists.
C21_Witness ==
    /\ ReturnedDecoded(inv["c1"])
    /\ inv["c1"].kwargs.images = AsValue(StrEntry(Existing))
    /\ inv["c1"].kwargs.audios = AsValue(BytesEntry(SomeBytes))
    /\ inv["c1"].called.kwargs.images = ListOfOneStr(Hi)
    /\ inv["c1"].called.kwargs.audios = ListOfOneStr(<<"Q", "Q", "=", "=">>)
    /\ inv["c1"].called.name = <<"t">>
    /\ inv["c1"].outcome = "path"

\* ------------------------------------------------------------------ C22
\* The path without its first character when that is a dot.
StripOneDot(path) ==
    IF Len(path) > 0 /\ path[1] = "." THEN Tail(path) ELSE path

\* The path of the argument does not exist as it is given.
IsAbsentPath(value) == IsPath(value) /\ ~exists(PathOf(value))

\* The guard, after the one retry without one leading dot, encoded the file
\* at the retried path if there is one and otherwise ended the invocation
\* with the file-not-found str and no connection or remote call.
RetriedOnce(c, value, sent) ==
    IF exists(StripOneDot(PathOf(value)))
    THEN sent = ListOfOneStr(b64encode(FileSystem[StripOneDot(PathOf(value))]))
    ELSE EndedInGuardWithStr(c) /\ c.text.msg = "File not found: "

\* C22: for a str media argument whose path does not exist the guard
\* retries once with exactly one leading '.' removed (of several leading
\* dots only the first goes): if the retried path exists, that file is the
\* one encoded; otherwise the invocation ends with the file-not-found str
\* and no connection or remote call.
C22_RetryStripsOneDot ==
    \A i \in Begun :
        LET c == inv[i]
        IN  /\ IsAbsentPath(c.kwargs.images) /\ c.kwargs.audios.type = "absent"
                => RetriedOnce(c, c.kwargs.images, c.sent.images)
            /\ IsAbsentPath(c.kwargs.audios) /\ ImagesPass(c.kwargs)
                => RetriedOnce(c, c.kwargs.audios, c.sent.audios)

\* ------------------------------------------------------------------ C23
\* The mapping has values and all of them are str or bytes.
IsMediaDict(value) ==
    /\ value.type = "dict"
    /\ Len(value.elems) > 0
    /\ \A k \in DOMAIN value.elems : value.elems[k].type \in {"str", "bytes"}

\* The mapping has a value that is neither str nor bytes.
IsDictWithOther(value) ==
    /\ value.type = "dict"
    /\ \E k \in DOMAIN value.elems : value.elems[k].type \notin {"str", "bytes"}

\* The guard did with the mapping what it does with the mapping's first
\* value given directly: it left the same encoded list in kwargs, or ended
\* the invocation with the same str.
AsFirstValue(c, media_type, value, sent) ==
    LET direct == NormalizeMedia(media_type, AsValue(value.elems[1]))
    IN  CASE direct.outcome = "continue" -> sent = direct.value
          [] direct.outcome = "returned" ->
                EndedInGuardWithStr(c) /\ c.text = direct.text
          [] OTHER -> FALSE

\* C23: for a mapping the guard encodes the first str or bytes value (a str
\* as a path, checked and retried like a str given directly, bytes as they
\* are) and later values do not change what is sent; a mapping with a
\* value of another type ends the invocation with a str before any
\* connection or remote call.
C23_DictFirstValueEncoded ==
    \A i \in Begun :
        LET c == inv[i]
        IN  /\ c.kwargs.audios.type = "absent" =>
                /\ IsMediaDict(c.kwargs.images) =>
                      AsFirstValue(c, "images", c.kwargs.images, c.sent.images)
                /\ IsDictWithOther(c.kwargs.images) => EndedInGuardWithStr(c)
            /\ c.kwargs.images.type = "absent" =>
                /\ IsMediaDict(c.kwargs.audios) =>
                      AsFirstValue(c, "audios", c.kwargs.audios, c.sent.audios)
                /\ IsDictWithOther(c.kwargs.audios) => EndedInGuardWithStr(c)

\* ------------------------------------------------------------------ C24
\* kwargs with the list of the media argument cut down to its first entry.
FirstEntryOnly(kwargs, media_type) ==
    IF media_type = "images"
    THEN [kwargs EXCEPT !.images = PyList(<< kwargs.images.elems[1] >>)]
    ELSE [kwargs EXCEPT !.audios = PyList(<< kwargs.audios.elems[1] >>)]

\* The invocation went as its guard does on the arguments given: the same
\* refusal, or the same arguments sent to the remote call.
WentAs(c, kwargs) ==
    LET guard == Guard(kwargs)
    IN  CASE guard.outcome = "continue" ->
                /\ c.sent = guard.kwargs
                /\ c.calls > 0 => c.called.kwargs = guard.kwargs
          [] guard.outcome = "returned" ->
                EndedInGuardWithStr(c) /\ c.text = guard.text
          [] OTHER ->
                c.pc = "done" /\ c.outcome = "raised" /\ c.raised = guard.raised

\* C24: for a media argument that is a list of one or more entries the
\* invocation goes as it does for the list of the first entry alone: the
\* same arguments are sent to the remote call and the guard refuses in the
\* same cases; the other entries change nothing.
C24_OnlyFirstEntryCounts ==
    \A i \in Begun :
        LET c == inv[i]
        IN  /\ c.kwargs.images.type = "list" /\ Len(c.kwargs.images.elems) > 0
                => WentAs(c, FirstEntryOnly(c.kwargs, "images"))
            /\ c.kwargs.audios.type = "list" /\ Len(c.kwargs.audios.elems) > 0
                => WentAs(c, FirstEntryOnly(c.kwargs, "audios"))

\* The remote call of an invocation with images = ['/a', '/m'] was sent
\* the encoding of /a alone.
C24_Witness ==
    /\ inv["c1"].kwargs.images = PyList(<< StrEntry(Existing), StrEntry(Missing) >>)
    /\ inv["c1"].calls = 1
    /\ inv["c1"].called.kwargs.images = ListOfOneStr(Hi)

\* ------------------------------------------------------------------ C25
\* The response carries several content items.
HasSeveralItems(response) ==
    response.kind = "result" /\ response.wrapped /\ Len(response.content) > 1

\* The response that carries the first item alone.
FirstItemAlone(response) == ToolResult(<< response.content[1] >>)

\* C25: decoding a response of several content items gives what decoding
\* its first item alone gives -- the same text, or a file of the same
\* extension and contents at the returned path -- and writes no file for a
\* later item.
C25_OnlyFirstItemDecoded ==
    [][\A i \in Callers :
          Decodes(i) /\ HasSeveralItems(inv[i].response) =>
             LET alone == Decode(FirstItemAlone(inv[i].response), tmpfiles)
             IN  /\ inv'[i].outcome = alone.outcome
                 /\ inv'[i].text = alone.text
                 /\ inv'[i].raised = alone.raised
                 /\ inv'[i].path = alone.path
                 /\ tmpfiles' = alone.files
                 /\ Cardinality(tmpfiles') <= Cardinality(tmpfiles) + 1]_vars

\* The response [image 'QQ==', text 'hello'] was decoded into one file
\* holding the byte of the image, and the path was returned.
C25_Witness ==
    /\ Answered(inv["c1"])
    /\ HasSeveralItems(inv["c1"].response)
    /\ FirstIs(inv["c1"].response, {"image"})
    /\ inv["c1"].response.content[2].type = "text"
    /\ inv["c1"].outcome = "path"
    /\ tmpfiles = {[name |-> inv["c1"].path.name, ext |-> "png",
                    container |-> "raw", data |-> <<65>>]}

\* --------------------------------- the registry and its invokers in use
MaxServed == 2

\* Discovery of at most MaxServed (descriptor, address) pairs.
ServedDiscovery == Len(registered) < MaxServed /\ DiscoveryPhase

ServedKwargs ==
    { [images |-> Absent, audios |-> Absent],
      [images |-> PyList(<< >>), audios |-> Absent] }

ServedResponses ==
    { ToolResult(<< TextContent("hello") >>), ToolResult(<< ImageContent(Hi) >>) }

\* A caller invokes an invoker of the registry.
BeginRegistered ==
    \E k \in DOMAIN handlers, kwargs \in ServedKwargs :
        started < MaxCalls /\ Begin("c1", handlers[k].value, kwargs)

\* Discovery, the read operations of the registry and invocations of the
\* registered invokers, in any order.
ServedNext ==
    \/ ServedDiscovery
    \/ \E tool_name \in ReaderNames, index \in 0 .. MaxRegs :
          CallGetUrlDraw(tool_name, index)
    \/ CallGetToolItems
    \/ \E tool_name \in ReaderNames, url \in ReaderUrls :
          CallGetHandlerByOf(tool_name, url)
    \/ \E tool_name \in ReaderNames, index \in 0 .. MaxRegs :
          CallGetItemDraw(tool_name, index)
    \/ CallLen
    \/ CallIter
    \/ BeginRegistered
    \/ Connect("c1")
    \/ ConnectFails("c1")
    \/ \E response \in ServedResponses : CallTool("c1", response)
    \/ CallToolFails("c1")
    \/ Exit("c1")

ServedSpec == Init /\ [][ServedNext]_vars

\* ------------------------------------------------------------------ C26
\* The name set, the replica lists and the invoker map.
RegistryState == <<tools, urls, handlers>>

\* Invocation i is running: begun and neither returned nor raised.
Running(c) == c.pc \notin {"idle", "done"}

\* C26: a step that changes the name set, a replica list or the invoker map
\* is a register; get_url, get_handler_by, registry[name], get_tool_items,
\* len, iteration and every step of an invocation of a registered invoker
\* leave them as they are; a running invocation keeps its invoker with its
\* url and descriptor; and what an invocation returns for a response is
\* what it returns with no file written by earlier calls.
C26_OnlyRegisterChangesRegistry ==
    [][/\ RegistryState' # RegistryState =>
             registered' # registered /\ last'.op = "register"
       /\ last'.op # "register" \/ inv' # inv =>
             RegistryState' = RegistryState
       /\ \A i \in Callers :
             /\ Running(inv[i]) => inv'[i].handler = inv[i].handler
             /\ inv'[i].serial # inv[i].serial =>
                   \E k \in DOMAIN handlers' : inv'[i].handler = handlers'[k].value
             /\ Decodes(i) =>
                   /\ inv'[i].outcome = Decode(inv[i].response, {}).outcome
                   /\ inv'[i].text = Decode(inv[i].response, {}).text]_vars

\* Two invokers are registered, the second invocation has returned a path
\* and the last read was registry[name], with the registry as register
\* left it.
C26_Witness ==
    /\ Len(registered) = 2
    /\ started = 2
    /\ inv["c1"].outcome = "path"
    /\ Cardinality(tmpfiles) = 2
    /\ last.op = "getitem"
    /\ last.handler = registered[2]
    /\ inv["c1"].handler = registered[1]
    /\ Len(handlers) = 2

\* ------------------------------------------------------------------ C27
\* C27: after any sequence of register calls the name set is the key set
\* of the replica-address map, the invoker map has the composite key of
\* every name with every address of its replica list, and registry[name]
\* for a known name returns an invoker, whatever address is drawn, and
\* raises no KeyError (nor anything else).
C27_KnownNameFindsInvoker ==
    /\ tools = DOMAIN urls
    /\ \A n \in DOMAIN urls : \A k \in DOMAIN urls[n] :
          Key(n, urls[n][k]) \in Keys(handlers)
    /\ \A n \in tools : \A draw \in Draws(n) :
          /\ getitem(n, draw).raised = ""
          /\ getitem(n, draw).ret # NoHandler
    /\ last.op = "getitem" /\ last.name \in tools =>
          last.raised = "" /\ last.handler # NoHandler

\* registry['t'] has returned the second of three invokers registered for
\* the name at two addresses.
C27_Witness ==
    /\ Len(registered) = 3
    /\ tools = {<<"t">>}
    /\ Len(urls[<<"t">>]) = 3
    /\ Len(handlers) = 2
    /\ last.op = "getitem"
    /\ last.name = <<"t">>
    /\ last.handler = registered[2]

\* ------------------------------------------------------------------ C28
\* C28: in every reachable registry state (empty, one tool, several tools,
\* replicas) get_tools(registry) raises nothing and returns the list of
\* descriptors registry.get_tool_items() returns.
C28_GetToolsAsGetToolItems ==
    /\ \A outcome \in get_tools :
          outcome.raised = "" /\ outcome.items = get_tool_items
    /\ last.op = "get_tools" =>
          last.raised = "" /\ last.items = get_tool_items

\* ------------------------------------------------------------------ C29
\* C29: an invocation whose remote call answered ends by returning a value
\* -- a str (a text or the path of a file) or None -- and raises nothing in
\* its decoding, whatever the shape of the response: a bare str, one item
\* not in a list, a list of one or more items, an empty list.
C29_DecodingNeverRaises ==
    \A i \in Begun :
        Answered(inv[i]) =>
            /\ inv[i].outcome \in {"str", "path", "None"}
            /\ inv[i].raised = ""

\* ------------------------------------------- register, update by update
\* A thread runs register(tool) one update at a time while another thread
\* calls get_url and registry[name]. The registering thread is kept in
\* readers (op "register", the tool in handler, pc the update it is at).
Registrar == "r1"

RegisterBegins ==
    /\ readers[Registrar].pc \in {"idle", "done"}
    /\ Len(registered) < MaxRegs
    /\ \E name \in ServedNames, url \in ToolUrls :
          readers' = [readers EXCEPT ![Registrar] =
              [IdleReader EXCEPT
                  !.op = "register", !.pc = "rg_add", !.name = name,
                  !.url = url,
                  !.handler = ToolHandler(Len(registered) + 1, url, name)]]
    /\ UNCHANGED <<tools, urls, handlers, registered, last, callVars>>

\* Line 177: self.tools.add(tool_name)
RegisterAddsName ==
    /\ readers[Registrar].pc = "rg_add"
    /\ tools' = ToolsAfterRegister(tools, readers[Registrar].name)
    /\ readers' = [readers EXCEPT ![Registrar].pc = "rg_urls"]
    /\ UNCHANGED <<urls, handlers, registered, last, callVars>>

\* Lines 178-181: the replica list is created or appended to.
RegisterAddsUrl ==
    /\ readers[Registrar].pc = "rg_urls"
    /\ urls' = UrlsAfterRegister(urls, readers[Registrar].name,
                                 readers[Registrar].url)
    /\ readers' = [readers EXCEPT ![Registrar].pc = "rg_store"]
    /\ UNCHANGED <<tools, handlers, registered, last, callVars>>

\* Lines 183-184: the invoker is stored under the composite key, and the
\* registration is complete.
RegisterStores ==
    /\ readers[Registrar].pc = "rg_store"
    /\ handlers' = DictSet(handlers,
                           Key(readers[Registrar].name, readers[Registrar].url),
                           readers[Registrar].handler)
    /\ registered' = Append(registered, readers[Registrar].handler)
    /\ readers' = [readers EXCEPT ![Registrar].pc = "done"]
    /\ UNCHANGED <<tools, urls, last, callVars>>

RacingNext ==
    \/ RegisterBegins
    \/ RegisterAddsName
    \/ RegisterAddsUrl
    \/ RegisterStores
    \/ \E tool_name \in ServedNames, index \in 0 .. MaxRegs :
          CallGetUrlDraw(tool_name, index)
    \/ \E tool_name \in ServedNames, index \in 0 .. MaxRegs :
          CallGetItemDraw(tool_name, index)

RacingSpec == Init /\ [][RacingNext]_vars

\* ------------------------------------------------------------------ C30
\* The registrations that are complete.
Completed == Range(registered)

\* C30: a get_url or registry[name] call that runs between two updates of
\* a register call (name added, replica list created or appended to,
\* invoker stored) raises nothing and returns None or a url / an invoker of
\* a registration that is complete.
C30_ReadsSafeDuringRegister ==
    /\ last.op = "get_url" =>
          /\ last.raised = ""
          /\ \/ last.ret = None
             \/ \E tool \in Completed : PairOf(tool) = <<last.name, last.ret>>
    /\ last.op = "getitem" =>
          /\ last.raised = ""
          /\ \/ last.handler = NoHandler
             \/ last.handler \in Completed
====
